---- MODULE Spec2Model ----
(***************************************************************************)
(* CrowdSense: the cooldown-gated verification pipeline                    *)
(* (src/ai_crowdsense_v2.py, src/simulation/crowdsense_simulation.py), the *)
(* Z-score/EWMA anomaly detector (src/core/anomaly_detection.py) and the   *)
(* background task scheduler (src/core/scheduler.py).                      *)
(*                                                                         *)
(* The repository holds several programs.  The variable `variant` says     *)
(* which one a behaviour is a run of:                                      *)
(*   "v2"        ai_crowdsense_v2.py, one fetch_tweets() call per tick     *)
(*   "sim"       crowdsense_simulation.py, fetch_and_analyze_tweets()      *)
(*   "detector"  an AnomalyDetector object driven directly                 *)
(*   "scheduler" a BackgroundScheduler object and its threads              *)
(*                                                                         *)
(* Time is an integer.  In the "v2" program one unit is 15 minutes, in the *)
(* "sim" program 5 minutes, in the scheduler one minute, so that the       *)
(* durations of the source become small integers with the same ratios.     *)
(***************************************************************************)
EXTENDS Integers, Sequences, FiniteSets, TLC

VARIABLES
    variant,                \* which program runs
    now,                    \* the wall clock
    \* ---- pipeline state (module globals of the two pipeline scripts)
    tweet_times,            \* keyword -> sequence of event timestamps
    last_alert_time,        \* keyword -> None | <<t>>
    api_retry_time,         \* None | <<t>>
    current_keyword_index,  \* rotation position of fetch_tweets
    sim_index,              \* position of the keyword loop of the simulation
    tick,                   \* record of what the latest tick did (history)
    observe,                \* which history is kept: "off", "gate" or "window"
    last_dispatch,          \* keyword -> None | <<t>>, latest delivered alert (history)
    recorded,               \* keyword -> timestamps recorded since the last clear (history)
    \* ---- AnomalyDetector object
    window_size,            \* self.window_size
    z_threshold,            \* self.z_threshold, a rational [num, den]
    keyword_history,        \* self.keyword_history: dict keyword -> deque of counts
    keyword_ewma,           \* self.keyword_ewma: dict keyword -> rational [num, den]
    det_result,             \* what the latest update_history returned (history)
    n_obs,                  \* keyword -> number of update_history calls so far
    \* ---- BackgroundScheduler object and the schedule library's job list
    running,                \* self.running
    scheduler_thread,       \* self.scheduler_thread: 0 (None) or a thread id
    tasks,                  \* self.tasks: dict name -> id of its task_info dict
    task_info,              \* the task_info dicts ever created, by id
    jobs,                   \* schedule.jobs: job id -> next_run (job i runs task_info i's name)
    task_stats,             \* self.task_stats: dict name -> list of execution records
    threads,                \* the run_scheduler threads, by id
    caller,                 \* the thread that calls add_task, start and stop
    event,                  \* what the latest scheduler step did (history)
    all_records,            \* name -> every record appended to task_stats[name]
                            \* (history, kept when variant = "stats")
    \* ---- a function of the program called on its own
    call,                   \* the function called and its arguments
    ret,                    \* None | <<what it returned>>
    \* ---- AdaptiveThresholdDetector object
    adaptation_rate,        \* self.adaptation_rate, a rational [num, den]
    keyword_thresholds,     \* self.keyword_thresholds: dict keyword -> rational
    keyword_averages,       \* self.keyword_averages: dict keyword -> rational
    adapt_result            \* what the latest update_threshold was given and
                            \* returned, and the number of calls so far (history)

pipeVars == <<tweet_times, last_alert_time, api_retry_time,
              current_keyword_index, sim_index, tick, observe, last_dispatch,
              recorded>>

detVars == <<window_size, z_threshold, keyword_history, keyword_ewma, det_result, n_obs>>

schedVars == <<running, scheduler_thread, tasks, task_info, jobs, task_stats, threads,
               caller, event, all_records>>

fnVars == <<call, ret>>

adaptVars == <<adaptation_rate, keyword_thresholds, keyword_averages, adapt_result>>

vars == <<variant, now, pipeVars, detVars, schedVars, fnVars, adaptVars>>

\* ------------------------------------------------------------------ bounds
MaxTime == 3
MaxTweets == 2
MaxBuf == 2
MaxObs == 2
MaxDetObs == 4
MaxCount == 3
MaxWindowSize == 3
MaxThreads == 1
MaxRegs == 2
MaxErrors == 1
MaxStatsTime == 102
MaxSchedTime == 3
MaxRestartThreads == 2
MaxRestartTime == 1
MaxRows == 6
MaxAdaptObs == 3

\* ------------------------------------------------------- program constants
\* ai_crowdsense_v2.py, in units of 15 minutes
WINDOW == 1
THRESHOLD == 2
ALERT_COOLDOWN == 2
API_RETRY_DELAY == 1

\* the first keywords of DISASTER_KEYWORDS
DISASTER_KEYWORDS == <<"earthquake", "flood">>
KeywordSet == {DISASTER_KEYWORDS[i] : i \in 1..Len(DISASTER_KEYWORDS)}

\* Python's None, and an optional timestamp <<t>>
None == <<>>
Some(t) == <<t>>

\* [now] * n
Repeat(x, n) == [i \in 1..n |-> x]

\* ------------------------------------------------- core/anomaly_detection.py
\* A rational number is a record [num, den] with den > 0.  The detector's
\* floats are kept exact this way: ewma as a fraction, and a Z-score
\* (count - mean) / std as [num, rad], standing for num / sqrt(rad), where for
\* n historical counts with sum S and sum of squares Q
\*     count - mean = (n*count - S) / n      std = sqrt(n*Q - S*S) / n.
RECURSIVE Gcd(_, _)
Gcd(a, b) == IF b = 0 THEN a ELSE Gcd(b, a % b)

\* in lowest terms, so that one value has one representation
Rat(a, b) == LET g == Gcd(a, b) IN [num |-> a \div g, den |-> b \div g]

\* ewma_alpha = 0.3
EWMA_ALPHA_NUM == 3
EWMA_ALPHA_DEN == 10

RECURSIVE SumSeq(_)
SumSeq(q) == IF q = <<>> THEN 0 ELSE Head(q) + SumSeq(Tail(q))

RECURSIVE SumSquares(_)
SumSquares(q) == IF q = <<>> THEN 0 ELSE Head(q) * Head(q) + SumSquares(Tail(q))

\* q[-k:]
LastN(q, k) == IF Len(q) <= k THEN q ELSE SubSeq(q, Len(q) - k + 1, Len(q))

\* a list that is never cut
DequeAppendUnbounded(q, x, maxlen) == Append(q, x)

\* deque(maxlen=maxlen).append(x)
DequeAppend(q, x, maxlen) == LastN(Append(q, x), maxlen)

ZeroZ == [num |-> 0, rad |-> 1]

\* a z-score that divides by a floor of one when the deviation is zero
CalculateZScoreFloored(history, current_count) ==
    IF Len(history) < 2 THEN ZeroZ
    ELSE LET historical_data == SubSeq(history, 1, Len(history) - 1)
             n == Len(historical_data)
             S == SumSeq(historical_data)
             Q == SumSquares(historical_data)
             rad == n * Q - S * S
         IN [num |-> n * current_count - S, rad |-> IF rad = 0 THEN 1 ELSE rad]

\* a z-score over the whole history, the current count included
CalculateZScoreInclusive(history, current_count) ==
    IF Len(history) < 2 THEN ZeroZ
    ELSE LET n == Len(history)
             S == SumSeq(history)
             Q == SumSquares(history)
             rad == n * Q - S * S
         IN IF rad = 0 THEN ZeroZ
            ELSE [num |-> n * current_count - S, rad |-> rad]

\* _calculate_z_score: history already holds current_count as its last item
CalculateZScore(history, current_count) ==
    IF Len(history) < 2 THEN ZeroZ
    ELSE LET historical_data == SubSeq(history, 1, Len(history) - 1)
             n == Len(historical_data)
             S == SumSeq(historical_data)
             Q == SumSquares(historical_data)
             rad == n * Q - S * S
         IN IF rad = 0 THEN ZeroZ
            ELSE [num |-> n * current_count - S, rad |-> rad]

\* abs(z_score) > threshold, for threshold = thr.num / thr.den
AbsZExceeds(z, thr) == z.num * z.num * thr.den * thr.den > thr.num * thr.num * z.rad

\* current_count > ewma_value * 1.5 and ewma_value > 0
EwmaExceeded(current_count, ewma_value) ==
    2 * current_count * ewma_value.den > 3 * ewma_value.num /\ ewma_value.num > 0

\* a verdict taken from the EWMA signal alone
IsAnomalyEwmaOnly(z_score, current_count, ewma_value, thr) ==
    EwmaExceeded(current_count, ewma_value)

\* a verdict that either signal alone can raise
IsAnomalyEither(z_score, current_count, ewma_value, thr) ==
    AbsZExceeds(z_score, thr) \/ EwmaExceeded(current_count, ewma_value)

\* _is_anomaly
IsAnomaly(z_score, current_count, ewma_value, thr) ==
    AbsZExceeds(z_score, thr) /\ EwmaExceeded(current_count, ewma_value)

\* a smoothing with the weights exchanged
EwmaUpdateSwapped(ewma, count) ==
    Rat((EWMA_ALPHA_DEN - EWMA_ALPHA_NUM) * count * ewma.den + EWMA_ALPHA_NUM * ewma.num,
        EWMA_ALPHA_DEN * ewma.den)

\* ewma_alpha * count + (1 - ewma_alpha) * ewma
EwmaUpdate(ewma, count) ==
    Rat(EWMA_ALPHA_NUM * count * ewma.den + (EWMA_ALPHA_DEN - EWMA_ALPHA_NUM) * ewma.num,
        EWMA_ALPHA_DEN * ewma.den)

\* d[k] = v on a dict kept as a function
DictSet(d, k, v) == [x \in DOMAIN d \cup {k} |-> IF x = k THEN v ELSE d[x]]

\* update_history: the detector's dicts after the call and the tuple returned,
\* as [history, ewma, result]
UpdateHistory(history, ewma, ws, thr, keyword, count) ==
    LET fresh == keyword \notin DOMAIN history
        h0 == IF fresh THEN DictSet(history, keyword, <<>>) ELSE history
        e0 == IF fresh THEN DictSet(ewma, keyword, Rat(count, 1)) ELSE ewma
        h1 == [h0 EXCEPT ![keyword] = DequeAppend(h0[keyword], count, ws)]
        z_score == CalculateZScore(h1[keyword], count)
        e1 == IF keyword \in DOMAIN e0
              THEN [e0 EXCEPT ![keyword] = EwmaUpdate(e0[keyword], count)]
              ELSE DictSet(e0, keyword, Rat(count, 1))
        ewma_value == e1[keyword]
    IN [history |-> h1, ewma |-> e1,
        result |-> [keyword |-> keyword, count |-> count, z_score |-> z_score,
                    ewma_value |-> ewma_value,
                    is_anomaly |-> IsAnomaly(z_score, count, ewma_value, thr)]]

\* load_historical_data: `rows` are the counts get_tweet_metrics_history
\* returned, in its order (ORDER BY created_at DESC: the newest first)
LoadHistoricalData(history, ewma, ws, keyword, rows) ==
    IF rows = <<>> THEN [history |-> history, ewma |-> ewma]
    ELSE [history |-> DictSet(history, keyword, LastN(LastN(rows, ws), ws)),
          ewma |-> DictSet(ewma, keyword, Rat(SumSeq(LastN(rows, 5)), Len(LastN(rows, 5))))]

NoResult ==
    [keyword |-> "-", count |-> 0, z_score |-> ZeroZ, ewma_value |-> Rat(0, 1),
     is_anomaly |-> FALSE]


\* ------------------------------------------- AdaptiveThresholdDetector
\* base_threshold: int = 5, and create_anomaly_detector("adaptive") passes 5
BASE_THRESHOLD == 5

\* adaptation_rate: 0.1 by default, 0.15 from create_anomaly_detector
AdaptationRates == {Rat(1, 10), Rat(3, 20)}

\* max(a, b) of two rationals
RatMax(a, b) == IF a.num * b.den >= b.num * a.den THEN a ELSE b

\* adaptation_rate * count + (1 - adaptation_rate) * avg
RunningAverage(rate, avg, count) ==
    Rat(rate.num * count * avg.den + (rate.den - rate.num) * avg.num,
        rate.den * avg.den)

\* an update_threshold whose verdict is taken on the threshold it found, not
\* on the one it leaves
UpdateThresholdStale(thresholds, averages, rate, keyword, count) ==
    LET fresh == keyword \notin DOMAIN thresholds
        t0 == IF fresh THEN DictSet(thresholds, keyword, Rat(BASE_THRESHOLD, 1))
              ELSE thresholds
        a0 == IF fresh THEN DictSet(averages, keyword, Rat(count, 1)) ELSE averages
        a1 == IF keyword \in DOMAIN a0
              THEN [a0 EXCEPT ![keyword] = RunningAverage(rate, a0[keyword], count)]
              ELSE a0
        avg == a1[keyword]
        t1 == [t0 EXCEPT ![keyword] = RatMax(Rat(BASE_THRESHOLD, 1), Rat(2 * avg.num, avg.den))]
        current_threshold == t1[keyword]
    IN [thresholds |-> t1, averages |-> a1,
        result |-> [current_threshold |-> current_threshold,
                    is_anomaly |-> count * t0[keyword].den >= t0[keyword].num]]

\* update_threshold: the detector's dicts after the call and the tuple
\* returned, as [thresholds, averages, result]
UpdateThreshold(thresholds, averages, rate, keyword, count) ==
    LET fresh == keyword \notin DOMAIN thresholds
        t0 == IF fresh THEN DictSet(thresholds, keyword, Rat(BASE_THRESHOLD, 1))
              ELSE thresholds
        a0 == IF fresh THEN DictSet(averages, keyword, Rat(count, 1)) ELSE averages
        a1 == IF keyword \in DOMAIN a0
              THEN [a0 EXCEPT ![keyword] = RunningAverage(rate, a0[keyword], count)]
              ELSE a0
        avg == a1[keyword]
        t1 == [t0 EXCEPT ![keyword] = RatMax(Rat(BASE_THRESHOLD, 1), Rat(2 * avg.num, avg.den))]
        current_threshold == t1[keyword]
    IN [thresholds |-> t1, averages |-> a1,
        result |-> [current_threshold |-> current_threshold,
                    is_anomaly |-> count * current_threshold.den >= current_threshold.num]]

NoAdaptResult ==
    [keyword |-> "-", count |-> 0, current_threshold |-> Rat(0, 1), is_anomaly |-> FALSE,
     calls |-> 0]

\* the counts the adaptive detector is fed
AdaptCounts == {0, 2, 5, 6, 20}

\* detector.update_threshold(keyword, count)
AdaptUpdate ==
    /\ variant = "adaptive"
    /\ adapt_result.calls < MaxAdaptObs
    /\ \E keyword \in KeywordSet, count \in AdaptCounts :
       LET d == UpdateThreshold(keyword_thresholds, keyword_averages, adaptation_rate,
                                keyword, count)
       IN /\ keyword_thresholds' = d.thresholds
          /\ keyword_averages' = d.averages
          /\ adapt_result' = [keyword |-> keyword, count |-> count,
                              current_threshold |-> d.result.current_threshold,
                              is_anomaly |-> d.result.is_anomaly,
                              calls |-> adapt_result.calls + 1]
    /\ UNCHANGED <<variant, now, pipeVars, detVars, schedVars, fnVars, adaptation_rate>>

\* AdaptiveThresholdDetector.__init__
InitAdaptive(rate) ==
    /\ adaptation_rate = rate
    /\ keyword_thresholds = <<>>
    /\ keyword_averages = <<>>
    /\ adapt_result = NoAdaptResult

\* ------------------------------------------------------ ai_crowdsense_v2.py

\* an eviction that also drops the timestamp exactly WINDOW old
RECURSIVE EvictAtBoundary(_, _)
EvictAtBoundary(q, t) ==
    IF q # <<>> /\ t - Head(q) >= WINDOW THEN EvictAtBoundary(Tail(q), t) ELSE q

\* while tweet_times[kw] and current_time - tweet_times[kw][0] > WINDOW: popleft()
RECURSIVE Evict(_, _)
Evict(q, t) ==
    IF q # <<>> /\ t - Head(q) > WINDOW THEN Evict(Tail(q), t) ELSE q

\* last_alert_time[kw] is None or current_time - last_alert_time[kw] > ALERT_COOLDOWN
\* a gate that admits every anomalous tick
GateOpenAlways(last, t) == TRUE

GateOpen(last, t) == last = None \/ t - last[1] > ALERT_COOLDOWN

\* api_retry_time and datetime.now() < api_retry_time
\* a back-off that still holds at retry_at itself
InApiCooldownThrough(retry, t) == retry # None /\ t <= retry[1]

InApiCooldown(retry, t) == retry # None /\ t < retry[1]

\* api_retry_time = current_time + timedelta(seconds=API_RETRY_DELAY)
RetryAfterThrottle(t) == Some(t + API_RETRY_DELAY)

\* ---- stage 1: analyze_tweets_with_ai
\* What call_groq_ai returned for the stage-1 prompt: `present` (a non-empty
\* text came back), `braces` ("{" in text and "}" in text), `parses`
\* (json.loads of the extracted part succeeds), `queries` and `location` (the
\* parsed object's fields), `has_kw` (keyword in ai_response.lower()).
\* What call_groq_ai returned: `present` a non-empty text, `braces` a text with
\* both "{" and "}", `parses` json.loads accepting the part between them,
\* `queries` and `location` the parsed fields, and `mention` how the text spells
\* the keyword: "none" (not at all), "lower" or "upper" (in capitals).
AIResponse(present, braces, parses, queries, location, mention) ==
    [present |-> present, braces |-> braces, parses |-> parses,
     queries |-> queries, location |-> location, mention |-> mention]

\* text.lower(), as far as the spelling of the keyword goes
Lower(mention) == IF mention = "upper" THEN "lower" ELSE mention

\* keyword in ai_response.lower(), for a keyword of DISASTER_KEYWORDS
KeywordInLowered(resp) == Lower(resp.mention) = "lower"

AIQueryLists ==
    { <<>>, << <<"ai", "q1">> >>,
      << <<"ai", "q1">>, <<"ai", "q2">>, <<"ai", "q3">>, <<"ai", "q4">> >> }

\* the responses the pipeline's ticks draw from: no response, an unparseable
\* one that names the keyword, a parsed one without and one with queries
TickAIResponses ==
    {AIResponse(FALSE, FALSE, FALSE, <<>>, None, "none"),
     AIResponse(TRUE, TRUE, FALSE, <<>>, None, "lower"),
     AIResponse(TRUE, TRUE, TRUE, <<>>, None, "lower"),
     AIResponse(TRUE, TRUE, TRUE, << <<"ai", "q1">> >>, Some("Tokyo"), "lower")}

\* every shape of response stage 1 tells apart
AIResponses ==
    {AIResponse(present, braces, parses, queries, None, mention) :
        present \in BOOLEAN, braces \in BOOLEAN, parses \in BOOLEAN,
        queries \in AIQueryLists, mention \in {"none", "lower", "upper"}}

FallbackQueries(kw) ==
    << <<kw, "news today">>, <<kw, "disaster alert">>, <<"breaking", kw, "emergency">> >>

\* a stage 1 that falls back on the templates whenever the text names the
\* keyword, JSON or not
AnalyzeTweetsWithAILenient(resp, kw) ==
    IF ~resp.present THEN <<<<>>, None>>
    ELSE IF resp.braces /\ resp.parses /\ resp.queries # <<>>
         THEN <<resp.queries, resp.location>>
    ELSE IF KeywordInLowered(resp) THEN <<FallbackQueries(kw), None>>
    ELSE <<<<>>, None>>

\* returns <<search_queries, location>>
AnalyzeTweetsWithAI(resp, kw) ==
    IF ~resp.present THEN <<<<>>, None>>
    ELSE IF resp.braces /\ resp.parses
         THEN IF resp.queries = <<>> THEN <<<<>>, None>>
              ELSE <<resp.queries, resp.location>>
    ELSE IF ~resp.braces THEN <<<<>>, None>>
    ELSE IF KeywordInLowered(resp) THEN <<FallbackQueries(kw), None>>
    ELSE <<<<>>, None>>

\* ---- stage 2: fetch_news_with_queries
\* One news-search outcome per query position: "error" (an error status or an
\* exception), "none" (status 200, no article) or "hit" (status 200, one article).
NewsOutcomes == [1..3 -> {"error", "none", "hit"}]

\* the outcomes the pipeline's ticks draw from
TickNewsOutcomes ==
    {[i \in 1..3 |-> "none"], [i \in 1..3 |-> IF i = 1 THEN "error" ELSE "hit"]}

Min(a, b) == IF a < b THEN a ELSE b

\* a search that gives up at the first query that fails
RECURSIVE NewsFromAborting(_, _, _)
NewsFromAborting(i, n, outcome) ==
    IF i > n \/ outcome[i] = "error" THEN <<>>
    ELSE (IF outcome[i] = "hit" THEN << <<"article", i>> >> ELSE <<>>)
         \o NewsFromAborting(i + 1, n, outcome)

RECURSIVE NewsFrom(_, _, _)
NewsFrom(i, n, outcome) ==
    IF i > n THEN <<>>
    ELSE (IF outcome[i] = "hit" THEN << <<"article", i>> >> ELSE <<>>)
         \o NewsFrom(i + 1, n, outcome)

\* for i, query in enumerate(search_queries[:3], 1): ... all_articles.extend(articles)
FetchNewsWithQueries(search_queries, outcome) ==
    NewsFrom(1, Min(Len(search_queries), 3), outcome)

NewsCalls(search_queries) == Min(Len(search_queries), 3)

\* ---- stage 3: validate_news_with_ai
ValidationResponse(present, braces, parses, is_validated) ==
    [present |-> present, braces |-> braces, parses |-> parses,
     is_validated |-> is_validated]

ValidationResponses ==
    {ValidationResponse(FALSE, FALSE, FALSE, FALSE),
     ValidationResponse(TRUE, FALSE, FALSE, FALSE),
     ValidationResponse(TRUE, TRUE, FALSE, FALSE),
     ValidationResponse(TRUE, TRUE, TRUE, FALSE),
     ValidationResponse(TRUE, TRUE, TRUE, TRUE)}

\* the validation responses the pipeline's ticks draw from
TickValidationResponses ==
    {ValidationResponse(FALSE, FALSE, FALSE, FALSE),
     ValidationResponse(TRUE, TRUE, FALSE, FALSE),
     ValidationResponse(TRUE, TRUE, TRUE, FALSE),
     ValidationResponse(TRUE, TRUE, TRUE, TRUE)}

\* a validation that takes the absence of news as nothing to contradict
ValidateNewsWithAIWithoutNews(news_articles, resp) ==
    IF news_articles = <<>>
    THEN [is_valid |-> TRUE, summary |-> "No news found for validation", ai_called |-> FALSE]
    ELSE IF ~(resp.present /\ resp.braces /\ resp.parses)
    THEN [is_valid |-> FALSE, summary |-> "AI validation failed", ai_called |-> TRUE]
    ELSE [is_valid |-> resp.is_validated, summary |-> "summary", ai_called |-> TRUE]

\* validate_news_with_ai with an absent or unparseable response taken as a
\* validation
ValidateNewsWithAITrusting(news_articles, resp) ==
    IF news_articles = <<>>
    THEN [is_valid |-> FALSE, summary |-> "No news found for validation", ai_called |-> FALSE]
    ELSE IF ~resp.present
    THEN [is_valid |-> TRUE, summary |-> "AI unavailable", ai_called |-> TRUE]
    ELSE IF ~resp.braces
    THEN [is_valid |-> FALSE, summary |-> "No JSON in AI response", ai_called |-> TRUE]
    ELSE IF ~resp.parses
    THEN [is_valid |-> TRUE, summary |-> "AI validation failed", ai_called |-> TRUE]
    ELSE [is_valid |-> resp.is_validated, summary |-> "summary", ai_called |-> TRUE]

\* returns [is_valid, summary, ai_called]
ValidateNewsWithAI(news_articles, resp) ==
    IF news_articles = <<>>
    THEN [is_valid |-> FALSE, summary |-> "No news found for validation", ai_called |-> FALSE]
    ELSE IF ~resp.present
    THEN [is_valid |-> FALSE, summary |-> "AI unavailable", ai_called |-> TRUE]
    ELSE IF ~resp.braces
    THEN [is_valid |-> FALSE, summary |-> "No JSON in AI response", ai_called |-> TRUE]
    ELSE IF ~resp.parses
    THEN [is_valid |-> FALSE, summary |-> "AI validation failed", ai_called |-> TRUE]
    ELSE [is_valid |-> resp.is_validated, summary |-> "summary", ai_called |-> TRUE]

\* ---- the record of a tick (history variable)
\* kind names the path the tick took through the handler; kw is the keyword
\* polled ("-" when none was); n is the number of events ingested and count
\* the window count the tick read; calls counts the calls the tick made to the
\* AI service, to the news search and to the notifier; stage3 is what
\* validation was handed (the number of articles and the AI's response), when
\* the tick reached it.
NoCalls == [ai |-> 0, news |-> 0, sms |-> 0]

NoStage3 ==
    [reached |-> FALSE, articles |-> 0,
     resp |-> ValidationResponse(FALSE, FALSE, FALSE, FALSE)]

NoTick ==
    [kind |-> "none", kw |-> "-", n |-> 0, count |-> 0, cleared |-> FALSE,
     calls |-> NoCalls, stage3 |-> NoStage3, saved |-> TRUE]

NewTick(kind, kw, n, count) ==
    [kind |-> kind, kw |-> kw, n |-> n, count |-> count, cleared |-> FALSE,
     calls |-> NoCalls, stage3 |-> NoStage3, saved |-> TRUE]

Called(tk, ai, news, sms) ==
    [tk EXCEPT !.calls = [ai |-> ai, news |-> news, sms |-> sms]]

Stage3(tk, news_articles, resp) ==
    [tk EXCEPT !.stage3 = [reached |-> TRUE, articles |-> Len(news_articles),
                           resp |-> resp]]

\* save_tweet_metrics raised in the tick
Unsaved(tk) == [tk EXCEPT !.saved = FALSE]

\* the tick called clear() on the keyword's window
Cleared(tk) == [tk EXCEPT !.cleared = TRUE]

\* the timestamps recorded for each keyword since its window was last cleared
\* (history variable, kept when observe = "window")
Recorded(tk) ==
    IF observe # "window" \/ tk.kw \notin KeywordSet THEN recorded
    ELSE IF tk.cleared THEN [recorded EXCEPT ![tk.kw] = <<>>]
    ELSE [recorded EXCEPT ![tk.kw] = @ \o Repeat(now, tk.n)]

V2Commit(tt, lat, retry, idx, disp, tk) ==
    /\ tweet_times' = tt
    /\ last_alert_time' = lat
    /\ api_retry_time' = retry
    /\ current_keyword_index' = idx
    /\ last_dispatch' = disp
    /\ tick' = tk
    /\ recorded' = Recorded(tk)
    /\ UNCHANGED <<variant, now, sim_index, observe, detVars, schedVars, fnVars, adaptVars>>

\* line 450: last_alert_time[kw] = current_time, before the AI analysis starts
StampOnAdmission(lat, kw, t) == [lat EXCEPT ![kw] = Some(t)]

\* lines 471-475: if send_sms_alert(alert_msg): print(...); then, whatever it
\* returned, tweet_times[kw].clear()
WindowAfterSend(win, sms) == <<>>

\* fetch_tweets, lines 449-478: the AI analysis pipeline of an admitted tick.
\* `win` is the keyword's window after this tick's ingestion and eviction.
V2Pipeline(kw, win, idx, n) ==
    LET tt1 == [tweet_times EXCEPT ![kw] = win]
        lat1 == StampOnAdmission(last_alert_time, kw, now)
        count == Len(win)
    IN \E resp \in TickAIResponses :
       LET a == AnalyzeTweetsWithAI(resp, kw)
           search_queries == a[1]
       IN IF search_queries = <<>>
          THEN V2Commit(tt1, lat1, api_retry_time, idx, last_dispatch,
                        Called(NewTick("no_queries", kw, n, count), 1, 0, 0))
          ELSE \E outcome \in TickNewsOutcomes :
               LET news_articles == FetchNewsWithQueries(search_queries, outcome) IN
               \E vresp \in (IF news_articles = <<>>
                              THEN {ValidationResponse(FALSE, FALSE, FALSE, FALSE)}
                              ELSE TickValidationResponses) :
               LET v == ValidateNewsWithAI(news_articles, vresp)
                   ai == IF v.ai_called THEN 2 ELSE 1
                   news == NewsCalls(search_queries)
               IN IF v.is_valid
                  THEN \E sms \in BOOLEAN :
                       V2Commit([tt1 EXCEPT ![kw] = WindowAfterSend(win, sms)],
                                lat1, api_retry_time, idx,
                                IF sms /\ observe = "gate"
                                THEN [last_dispatch EXCEPT ![kw] = Some(now)]
                                ELSE last_dispatch,
                                Cleared(Stage3(Called(NewTick(IF sms THEN "alert"
                                                              ELSE "sms_failed",
                                                              kw, n, count),
                                                      ai, news, 1),
                                               news_articles, vresp)))
                  ELSE V2Commit(tt1, lat1, api_retry_time, idx, last_dispatch,
                                Stage3(Called(NewTick("rejected", kw, n, count),
                                              ai, news, 0),
                                       news_articles, vresp))

Statuses == {"200", "429", "401", "500", "exception"}

\* a rotation that stays on the keyword it polled
NextKeywordIndexStaying(index) == index

\* line 381: (current_keyword_index + 1) % len(DISASTER_KEYWORDS)
NextKeywordIndex(index) == (index + 1) % Len(DISASTER_KEYWORDS)

\* a request whose failure comes after a timestamp was recorded
WindowAfterExceptionPartial(q, t) == Append(q, t)

\* lines 388-420: what can raise inside the try (the request, the decoding of
\* its body) comes before the appends of line 413, and the except returns
WindowAfterException(q, t) == q

\* a non-success status handled as a throttling is
RetryAfterErrorBackoff(retry, t) == Some(t + API_RETRY_DELAY)

\* lines 397-403: on 401 and on any other status but 200 the function returns,
\* api_retry_time is not assigned
RetryAfterError(retry, t) == retry

\* fetch_tweets(): one tick of ai_crowdsense_v2.py
FetchTweets ==
    /\ variant = "v2"
    /\ IF InApiCooldown(api_retry_time, now)
       THEN V2Commit(tweet_times, last_alert_time, api_retry_time,
                     current_keyword_index, last_dispatch,
                     NewTick("short_circuit", "-", 0, 0))
       ELSE
         LET kw == DISASTER_KEYWORDS[current_keyword_index + 1]
             idx == NextKeywordIndex(current_keyword_index)
         IN \E status \in Statuses :
            CASE status = "429" ->
                   V2Commit(tweet_times, last_alert_time, RetryAfterThrottle(now),
                            idx, last_dispatch, NewTick("throttled", kw, 0, 0))
              [] status = "401" ->
                   V2Commit(tweet_times, last_alert_time,
                            RetryAfterError(api_retry_time, now),
                            idx, last_dispatch, NewTick("auth_failed", kw, 0, 0))
              [] status = "500" ->
                   V2Commit(tweet_times, last_alert_time,
                            RetryAfterError(api_retry_time, now),
                            idx, last_dispatch, NewTick("api_error", kw, 0, 0))
              [] status = "exception" ->
                   V2Commit([tweet_times EXCEPT ![kw] = WindowAfterException(@, now)],
                            last_alert_time, api_retry_time,
                            idx, last_dispatch, NewTick("network_error", kw, 0, 0))
              [] status = "200" ->
                   \E n \in 0..MaxTweets :
                   LET win == Evict(tweet_times[kw] \o Repeat(now, n), now)
                       current_count == Len(win)
                       tt1 == [tweet_times EXCEPT ![kw] = win]
                   IN /\ current_count <= MaxBuf
                      /\ IF current_count < THRESHOLD
                         THEN V2Commit(tt1, last_alert_time, api_retry_time, idx,
                                       last_dispatch,
                                       NewTick("below_threshold", kw, n, current_count))
                         ELSE IF ~GateOpen(last_alert_time[kw], now)
                         THEN V2Commit(tt1, last_alert_time, api_retry_time, idx,
                                       last_dispatch,
                                       NewTick("gate_closed", kw, n, current_count))
                         ELSE IF n = 0
                         THEN V2Commit(tt1, last_alert_time, api_retry_time, idx,
                                       last_dispatch,
                                       NewTick("no_tweets", kw, n, current_count))
                         ELSE V2Pipeline(kw, win, idx, n)

\* ------------------------------------- simulation/crowdsense_simulation.py
\* in units of 5 minutes
SIM_WINDOW == 1
SIM_ALERT_COOLDOWN == 3

\* cutoff = current_time - WINDOW
\* while tweet_buffers[keyword] and tweet_buffers[keyword][0] < cutoff: popleft()
RECURSIVE SimEvict(_, _)
SimEvict(q, t) ==
    IF q # <<>> /\ Head(q) < t - SIM_WINDOW THEN SimEvict(Tail(q), t) ELSE q

\* should_send_alert, with t the clock it reads
ShouldSendAlert(last, t) == last = None \/ t - last[1] > SIM_ALERT_COOLDOWN

\* the rows get_tweet_metrics_history may hold for a keyword, newest first
DbHistories == {<<>>, <<1, 0>>, <<1, 0, 0, 0, 0, 0>>}

\* an analysis that hands back the detector's verdict though the metric could
\* not be saved
AnalyzeTweetAnomalyPropagating(history, ewma, ws, thr, keyword, tweet_count, rows, saved) ==
    LET reload == keyword \notin DOMAIN history \/ history[keyword] = <<>>
        l == IF reload THEN LoadHistoricalData(history, ewma, ws, keyword, rows)
             ELSE [history |-> history, ewma |-> ewma]
        u == UpdateHistory(l.history, l.ewma, ws, thr, keyword, tweet_count)
    IN [history |-> u.history, ewma |-> u.ewma, result |-> u.result,
        returned |-> u.result]

\* analyze_tweet_anomaly: `rows` is what the database holds, `saved` whether
\* save_tweet_metrics succeeded.  Returns [history, ewma, result, returned],
\* `result` being update_history's tuple and `returned` the function's own.
AnalyzeTweetAnomaly(history, ewma, ws, thr, keyword, tweet_count, rows, saved) ==
    LET reload == keyword \notin DOMAIN history \/ history[keyword] = <<>>
        l == IF reload THEN LoadHistoricalData(history, ewma, ws, keyword, rows)
             ELSE [history |-> history, ewma |-> ewma]
        u == UpdateHistory(l.history, l.ewma, ws, thr, keyword, tweet_count)
    IN [history |-> u.history, ewma |-> u.ewma, result |-> u.result,
        returned |-> IF saved THEN u.result
                     ELSE [u.result EXCEPT !.z_score = ZeroZ, !.ewma_value = Rat(0, 1),
                                           !.is_anomaly = FALSE]]

SimCommit(tt, lat, disp, d, tk) ==
    /\ tweet_times' = tt
    /\ last_alert_time' = lat
    /\ last_dispatch' = disp
    /\ keyword_history' = d.history
    /\ keyword_ewma' = d.ewma
    /\ det_result' = d.result
    /\ tick' = tk
    /\ recorded' = Recorded(tk)
    /\ sim_index' = (sim_index + 1) % Len(DISASTER_KEYWORDS)
    /\ UNCHANGED <<variant, now, api_retry_time, current_keyword_index, observe,
                   window_size, z_threshold, schedVars, fnVars, adaptVars>>

\* fetch_and_analyze_tweets: the iteration of its keyword loop for the keyword
\* at sim_index (lines 306-395)
SimKeyword ==
    /\ variant = "sim"
    /\ LET keyword == DISASTER_KEYWORDS[sim_index + 1] IN
       /\ n_obs[keyword] < MaxObs
       /\ n_obs' = [n_obs EXCEPT ![keyword] = @ + 1]
       /\ \E tweet_count \in 0..MaxTweets, saved \in BOOLEAN,
             rows \in (IF keyword \notin DOMAIN keyword_history
                          \/ keyword_history[keyword] = <<>>
                       THEN DbHistories ELSE {<<>>}) :
          LET current_time == now
              buf == SimEvict(tweet_times[keyword] \o Repeat(current_time, tweet_count),
                              current_time)
              window_count == Len(buf)
              d == AnalyzeTweetAnomaly(keyword_history, keyword_ewma, window_size,
                                       z_threshold, keyword, window_count, rows, saved)
              tt1 == [tweet_times EXCEPT ![keyword] = buf]
              Mark(tk) == IF saved THEN tk ELSE Unsaved(tk)
          IN /\ window_count <= MaxBuf
             /\ IF ~d.returned.is_anomaly
                THEN SimCommit(tt1, last_alert_time, last_dispatch, d,
                               Mark(NewTick(IF saved THEN "no_anomaly"
                                            ELSE "metrics_failed",
                                            keyword, tweet_count, window_count)))
                ELSE IF ~ShouldSendAlert(last_alert_time[keyword], now)
                THEN SimCommit(tt1, last_alert_time, last_dispatch, d,
                               Mark(NewTick("gate_closed", keyword, tweet_count,
                                            window_count)))
                ELSE \E sent \in {"send_failed", "save_failed", "ok"} :
                     \* send_alert raises on a delivery error and save_alert on a
                     \* database error: lines 371-375 are then skipped
                     SimCommit(IF sent = "ok" THEN [tt1 EXCEPT ![keyword] = <<>>] ELSE tt1,
                               IF sent = "ok"
                               THEN [last_alert_time EXCEPT ![keyword] = Some(current_time)]
                               ELSE last_alert_time,
                               IF sent # "send_failed" /\ observe = "gate"
                               THEN [last_dispatch EXCEPT ![keyword] = Some(now)]
                               ELSE last_dispatch,
                               d,
                               LET tk == Called(NewTick(CASE sent = "ok" -> "alert"
                                                          [] sent = "save_failed" -> "alert_unsaved"
                                                          [] OTHER -> "sms_failed",
                                                        keyword, tweet_count, window_count),
                                                0, 1, 1)
                               IN Mark(IF sent = "ok" THEN Cleared(tk) ELSE tk))

\* ------------------------------------------- functions called on their own
NoCall == [op |-> "none"]

Return(value) ==
    /\ ret = None
    /\ ret' = Some(value)
    /\ UNCHANGED <<variant, now, pipeVars, detVars, schedVars, call, adaptVars>>

\* analyze_tweets_with_ai(tweets_data, keyword); line 134 returns at once
\* when there are no tweets
CallAnalyzeTweetsWithAI ==
    /\ call.op = "analyze_tweets_with_ai"
    /\ Return(IF ~call.has_tweets THEN <<<<>>, None>>
              ELSE AnalyzeTweetsWithAI(call.resp, call.keyword))

\* ------------------------------------------- the detector, driven directly
DetCommit(d, keyword) ==
    /\ keyword_history' = d.history
    /\ keyword_ewma' = d.ewma
    /\ UNCHANGED <<variant, now, pipeVars, window_size, z_threshold, schedVars, fnVars, adaptVars>>

\* detector.update_history(keyword, count)
DetUpdate ==
    /\ variant = "detector"
    /\ \E keyword \in KeywordSet, count \in 0..MaxCount :
       /\ n_obs["earthquake"] + n_obs["flood"] < MaxDetObs
       /\ n_obs' = [n_obs EXCEPT ![keyword] = @ + 1]
       /\ LET d == UpdateHistory(keyword_history, keyword_ewma, window_size,
                                 z_threshold, keyword, count)
          IN DetCommit(d, keyword) /\ det_result' = d.result

\* test_data of the demo, up to its spike
TEST_DATA == <<2, 3, 1, 4, 2, 3, 15>>

\* the demo's loop body, detector.update_history("test", count), on the next
\* count of test_data for a keyword
DemoFeed ==
    /\ variant = "demo"
    /\ \E keyword \in KeywordSet :
       /\ n_obs[keyword] < Len(TEST_DATA)
       /\ n_obs' = [n_obs EXCEPT ![keyword] = @ + 1]
       /\ LET d == UpdateHistory(keyword_history, keyword_ewma, window_size,
                                 z_threshold, keyword, TEST_DATA[n_obs[keyword] + 1])
          IN DetCommit(d, keyword) /\ det_result' = d.result

\* detector.load_historical_data(keyword)
DetLoad ==
    /\ variant = "detector"
    /\ \E keyword \in KeywordSet, rows \in DbHistories :
       /\ DetCommit(LoadHistoricalData(keyword_history, keyword_ewma, window_size,
                                       keyword, rows), keyword)
       /\ UNCHANGED <<det_result, n_obs>>

\* ---- create_sms_alert(summary, news_urls, keyword, location)
\* A text is known by its length alone; a message is the sequence of its
\* pieces, each with the length len() counts for it.
\* if len(test_msg) <= 1500
SMS_LIMIT == 1500

Piece(kind, id, len) == [kind |-> kind, id |-> id, len |-> len]

\* len(keyword.upper()), for the keywords of DISASTER_KEYWORDS
KeywordLen == [k \in KeywordSet |-> IF k = "earthquake" THEN 10 ELSE 5]

RECURSIVE MsgLen(_)
MsgLen(msg) == IF msg = <<>> THEN 0 ELSE Head(msg).len + MsgLen(Tail(msg))

\* the i-th URL on a line of its own: f"\n{url}"
UrlLine(news_urls, i) ==
    <<Piece("newline", 0, 1), Piece("url", i, news_urls[i])>>

\* a loop that skips a URL that does not fit and tries the next one
RECURSIVE AppendUrlsSkipping(_, _, _)
AppendUrlsSkipping(alert_msg, news_urls, i) ==
    IF i > Min(Len(news_urls), 2) THEN alert_msg
    ELSE LET test_msg == alert_msg \o UrlLine(news_urls, i)
         IN IF MsgLen(test_msg) <= SMS_LIMIT
            THEN AppendUrlsSkipping(test_msg, news_urls, i + 1)
            ELSE AppendUrlsSkipping(alert_msg, news_urls, i + 1)

\* lines 355-360: for url in news_urls[:2], from the i-th on
RECURSIVE AppendUrls(_, _, _)
AppendUrls(alert_msg, news_urls, i) ==
    IF i > Min(Len(news_urls), 2) THEN alert_msg
    ELSE LET test_msg == alert_msg \o UrlLine(news_urls, i)
         IN IF MsgLen(test_msg) <= SMS_LIMIT
            THEN AppendUrls(test_msg, news_urls, i + 1)
            ELSE alert_msg

\* `summary` is the length of the summary, `news_urls` the lengths of the
\* URLs and `location` None or the length of the location; the message opens
\* with the siren sign and a space
CreateSmsAlert(summary, news_urls, keyword, location) ==
    LET header == <<Piece("siren", 0, 2), Piece("keyword_upper", 0, KeywordLen[keyword])>>
        place == IF location # None /\ location[1] > 0
                 THEN <<Piece("dash", 0, 3), Piece("location", 0, location[1])>>
                 ELSE <<>>
        body == <<Piece("blank_line", 0, 2), Piece("summary", 0, summary)>>
    IN AppendUrls(header \o place \o body, news_urls, 1)

CallCreateSmsAlert ==
    /\ call.op = "create_sms_alert"
    /\ Return(CreateSmsAlert(call.summary, call.news_urls, call.keyword, call.location))

\* fetch_news_with_queries(search_queries): the queries it sent to the news
\* search, in order, and the list it returns
CallFetchNewsWithQueries ==
    /\ call.op = "fetch_news_with_queries"
    /\ Return([searched |-> SubSeq(call.search_queries, 1, NewsCalls(call.search_queries)),
               all_articles |-> FetchNewsWithQueries(call.search_queries, call.outcome)])

\* every list of at most n counts
RECURSIVE Counts(_)
Counts(n) ==
    IF n = 0 THEN {<<>>}
    ELSE LET shorter == Counts(n - 1)
         IN shorter \cup {Append(q, c) : q \in {r \in shorter : Len(r) = n - 1},
                                          c \in 0..MaxCount}

\* anomaly_detector.load_historical_data(keyword) on a detector that holds
\* nothing for the keyword; call.rows are the counts of the rows
\* get_tweet_metrics_history returns, in its order
CallLoadHistoricalData ==
    /\ call.op = "load_historical_data"
    /\ ret = None
    /\ LET d == LoadHistoricalData(keyword_history, keyword_ewma, window_size,
                                   call.keyword, call.rows)
       IN /\ keyword_history' = d.history
          /\ keyword_ewma' = d.ewma
    /\ ret' = Some(TRUE)
    /\ UNCHANGED <<variant, now, pipeVars, window_size, z_threshold, det_result, n_obs,
                   schedVars, call, adaptVars>>

\* ------------------------------------------------------ core/scheduler.py
\* in units of one minute
Names == {"a", "b"}
Intervals == {1, 2}
ThreadIds == 1..MaxRestartThreads

\* the threads start() may create
StartableThreads ==
    1..(IF variant = "restart" THEN MaxRestartThreads ELSE MaxThreads)

\* self.task_stats[task_name] = self.task_stats[task_name][-100:]
KEEP == 100

NoEvent == [kind |-> "none", name |-> "-", thread |-> 0, info |-> 0]

NewEvent(kind, name, thread, info) ==
    [kind |-> kind, name |-> name, thread |-> thread, info |-> info]

\* a thread that is not inside _run_task
Outside(pc, pending) ==
    [pc |-> pc, pending |-> pending, job |-> 0, info |-> 0, name |-> "-", start_time |-> 0]

\* a thread inside _run_task, past line 71
Inside(pending, job, info, name, start_time) ==
    [pc |-> "run", pending |-> pending, job |-> job, info |-> info, name |-> name,
     start_time |-> start_time]

\* the ids in `ids` ordered as sorted() orders the jobs: by next_run, and by
\* position in schedule.jobs among equals
RECURSIVE SortJobs(_, _)
SortJobs(ids, next_run) ==
    IF ids = {} THEN <<>>
    ELSE LET first == CHOOSE i \in ids :
                        \A j \in ids : next_run[i] < next_run[j]
                                       \/ (next_run[i] = next_run[j] /\ i <= j)
         IN <<first>> \o SortJobs(ids \ {first}, next_run)

\* a pass that leaves out the jobs of a task that has failed before
RunnableJobsHealthy(next_run, t) ==
    SortJobs({i \in DOMAIN next_run : t >= next_run[i] /\ task_info[i].error_count = 0},
             next_run)

\* schedule.run_pending: the jobs whose should_run holds, sorted
RunnableJobs(next_run, t) == SortJobs({i \in DOMAIN next_run : t >= next_run[i]}, next_run)

\* an execution record; the result and the error text are left out
Record(start_time, success) == [start_time |-> start_time, success |-> success]

\* _run_task lines 90-102 and 114-123: the record is appended, and the list
\* is cut to its last KEEP records on the success path only
StoreRecord(stats, name, rec) ==
    LET old == IF name \in DOMAIN stats THEN stats[name] ELSE <<>>
        new == Append(old, rec)
    IN DictSet(stats, name, IF rec.success THEN LastN(new, KEEP) ELSE new)

\* bookkeeping that stamps last_run for a failed run too
CountRunStampingFailures(infos, id, start_time, success) ==
    IF success
    THEN [infos EXCEPT ![id].last_run = Some(start_time), ![id].run_count = @ + 1]
    ELSE [infos EXCEPT ![id].last_run = Some(start_time), ![id].error_count = @ + 1]

\* _run_task lines 80-81 and 106 on the task_info dict captured at line 70
CountRun(infos, id, start_time, success) ==
    IF success
    THEN [infos EXCEPT ![id].last_run = Some(start_time), ![id].run_count = @ + 1]
    ELSE [infos EXCEPT ![id].error_count = @ + 1]

\* the end of _run_task for a run begun at start_time on task_info `id`
FinishRun(name, id, start_time, success) ==
    /\ success \/ task_info[id].error_count < MaxErrors
    /\ task_info' = CountRun(task_info, id, start_time, success)
    /\ task_stats' = StoreRecord(task_stats, name, Record(start_time, success))
    /\ all_records' = IF variant # "stats" THEN all_records
                       ELSE DictSet(all_records, name,
                                    Append(IF name \in DOMAIN all_records
                                           THEN all_records[name] ELSE <<>>,
                                           Record(start_time, success)))

\* a job scheduled at a fixed rate: the next run is one interval after the run
\* that was due
ScheduleNextRunFromDue(next_run, interval, t) == next_run + interval

\* schedule's Job.run, once the job function returned: the next run is one
\* interval after the clock reading `t` taken then, whatever next_run was
ScheduleNextRun(next_run, interval, t) == t + interval

\* a loop thread whose exception handler is missing: a failed run ends it
ThreadAfterRunUncaught(th, success) ==
    IF success
    THEN Outside(IF Tail(th.pending) = <<>> THEN "idle" ELSE "pass", Tail(th.pending))
    ELSE Outside("dead", <<>>)

\* the loop thread once _run_task returned: the except clause of lines 104-123
\* has swallowed a failure, and run_pending goes on with the jobs left
ThreadAfterRun(th, success) ==
    Outside(IF Tail(th.pending) = <<>> THEN "idle" ELSE "pass", Tail(th.pending))

\* add_task(name, func, interval_minutes, run_immediately)
AddTask ==
    /\ variant \in {"scheduler", "restart", "remove"}
    /\ caller.pc = "idle"
    /\ \E name \in Names, interval_minutes \in Intervals, run_immediately \in BOOLEAN :
       LET id == Cardinality(DOMAIN task_info) + 1 IN
       /\ id <= MaxRegs
       /\ tasks' = DictSet(tasks, name, id)
       /\ task_info' = DictSet(task_info, id,
                               [name |-> name, interval_minutes |-> interval_minutes,
                                last_run |-> None, run_count |-> 0, error_count |-> 0])
       /\ jobs' = DictSet(jobs, id, now + interval_minutes)
       /\ caller' = IF run_immediately THEN Inside(<<>>, 0, id, name, now) ELSE caller
       /\ event' = NewEvent(IF run_immediately THEN "add_and_run" ELSE "add", name, 0, id)
       /\ UNCHANGED <<running, scheduler_thread, task_stats, threads, all_records>>
    /\ UNCHANGED <<variant, now, pipeVars, detVars, fnVars, adaptVars>>

\* remove_task(task_name): schedule.cancel_job takes the job of the name's
\* task_info out of schedule.jobs; a name that is not registered is only logged
RemoveTask ==
    /\ variant = "remove"
    /\ caller.pc = "idle"
    /\ \E task_name \in Names :
       IF task_name \in DOMAIN tasks
       THEN /\ jobs' = [j \in DOMAIN jobs \ {tasks[task_name]} |-> jobs[j]]
            /\ tasks' = [n \in DOMAIN tasks \ {task_name} |-> tasks[n]]
            /\ task_stats' = [n \in DOMAIN task_stats \ {task_name} |-> task_stats[n]]
            /\ event' = NewEvent("remove", task_name, 0, tasks[task_name])
       ELSE /\ event' = NewEvent("remove_unknown", task_name, 0, 0)
            /\ UNCHANGED <<jobs, tasks, task_stats>>
    /\ UNCHANGED <<running, scheduler_thread, task_info, threads, caller, all_records>>
    /\ UNCHANGED <<variant, now, pipeVars, detVars, fnVars, adaptVars>>

\* the run add_task started at line 62 returns
CallerRunEnd ==
    /\ caller.pc = "run"
    /\ \E success \in BOOLEAN :
       /\ FinishRun(caller.name, caller.info, caller.start_time, success)
       /\ event' = NewEvent(IF success THEN "ok" ELSE "failed", caller.name, 0, caller.info)
    /\ caller' = Outside("idle", <<>>)
    /\ UNCHANGED <<running, scheduler_thread, tasks, jobs, threads>>
    /\ UNCHANGED <<variant, now, pipeVars, detVars, fnVars, adaptVars>>

\* start()
Start ==
    /\ variant \in {"scheduler", "restart", "remove"}
    /\ caller.pc = "idle"
    /\ IF running
       THEN /\ event' = NewEvent("start_ignored", "-", 0, 0)
            /\ UNCHANGED <<running, scheduler_thread, threads>>
       ELSE /\ \E t \in StartableThreads : threads[t].pc = "unborn"
            /\ LET t == CHOOSE t \in ThreadIds :
                          threads[t].pc = "unborn"
                          /\ \A u \in ThreadIds : threads[u].pc = "unborn" => t <= u
               IN /\ running' = TRUE
                  /\ threads' = [threads EXCEPT ![t] = Outside("idle", <<>>)]
                  /\ scheduler_thread' = t
                  /\ event' = NewEvent("start", "-", t, 0)
    /\ UNCHANGED <<tasks, task_info, jobs, task_stats, caller, all_records>>
    /\ UNCHANGED <<variant, now, pipeVars, detVars, fnVars, adaptVars>>

\* stop(): join(timeout=10) outlasts the loop's one-second sleep, and gives up
\* on a thread that is inside run_pending
Stop ==
    /\ variant = "scheduler"
    /\ caller.pc = "idle"
    /\ running' = FALSE
    /\ threads' = IF scheduler_thread # 0 /\ threads[scheduler_thread].pc = "idle"
                  THEN [threads EXCEPT ![scheduler_thread] = Outside("dead", <<>>)]
                  ELSE threads
    /\ event' = NewEvent("stop", "-", scheduler_thread, 0)
    /\ UNCHANGED <<scheduler_thread, tasks, task_info, jobs, task_stats, caller, all_records>>
    /\ UNCHANGED <<variant, now, pipeVars, detVars, fnVars, adaptVars>>

\* join() without a timeout: it returns once the thread has ended, which a
\* thread inside run_pending has not
JoinReturnsUntimed(th) == th.pc \notin {"pass", "run"}

\* scheduler_thread.join(timeout=10) returns when the thread has ended or when
\* the ten seconds have passed, whichever comes first
JoinReturns(th) == TRUE

\* stop() up to its join: lines 152-156
StopCall ==
    /\ variant = "restart"
    /\ caller.pc = "idle"
    /\ running' = FALSE
    /\ caller' = IF scheduler_thread # 0
                    /\ threads[scheduler_thread].pc \in {"idle", "pass", "run"}
                 THEN Outside("join", <<>>)
                 ELSE caller
    /\ event' = NewEvent("stop", "-", scheduler_thread, 0)
    /\ UNCHANGED <<scheduler_thread, tasks, task_info, jobs, task_stats, threads,
                   all_records>>
    /\ UNCHANGED <<variant, now, pipeVars, detVars, fnVars, adaptVars>>

\* stop() from the return of its join: a loop thread that was sleeping has
\* met `while self.running` within the ten seconds and ended; one inside
\* run_pending is left as it is
JoinReturn ==
    /\ caller.pc = "join"
    /\ JoinReturns(threads[scheduler_thread])
    /\ caller' = Outside("idle", <<>>)
    /\ threads' = IF threads[scheduler_thread].pc = "idle"
                  THEN [threads EXCEPT ![scheduler_thread] = Outside("dead", <<>>)]
                  ELSE threads
    /\ event' = NewEvent("stopped", "-", scheduler_thread, 0)
    /\ UNCHANGED <<running, scheduler_thread, tasks, task_info, jobs, task_stats,
                   all_records>>
    /\ UNCHANGED <<variant, now, pipeVars, detVars, fnVars, adaptVars>>

\* a thread as the exit of the process leaves it: the loop threads are daemon
\* threads, and SystemExit is no Exception for line 104 to catch
AtExit(th) ==
    IF th.pc = "run" THEN [th EXCEPT !.pc = "cut"]
    ELSE IF th.pc = "unborn" THEN th
    ELSE Outside("dead", <<>>)

\* _signal_handler(signum, frame), run by the main thread on SIGINT or SIGTERM:
\* stop(), whose join(timeout=10) a sleeping loop thread meets and a thread
\* inside a longer run does not, then sys.exit(0)
SignalHandler ==
    /\ variant = "scheduler"
    /\ caller.pc \in {"idle", "run"}
    /\ running' = FALSE
    /\ threads' = [t \in ThreadIds |-> AtExit(threads[t])]
    /\ caller' = IF caller.pc = "run" THEN AtExit(caller) ELSE Outside("exited", <<>>)
    /\ event' = NewEvent("signal", "-", scheduler_thread, 0)
    /\ UNCHANGED <<scheduler_thread, tasks, task_info, jobs, task_stats, all_records>>
    /\ UNCHANGED <<variant, now, pipeVars, detVars, fnVars, adaptVars>>

\* run_scheduler: `while self.running` fails
LoopExit ==
    /\ \E t \in ThreadIds :
       /\ threads[t].pc = "idle"
       /\ ~running
       /\ threads' = [threads EXCEPT ![t] = Outside("dead", <<>>)]
       /\ event' = NewEvent("exit", "-", t, 0)
    /\ UNCHANGED <<running, scheduler_thread, tasks, task_info, jobs, task_stats, caller,
                   all_records>>
    /\ UNCHANGED <<variant, now, pipeVars, detVars, fnVars, adaptVars>>

\* run_scheduler: `while self.running` holds and schedule.run_pending() finds
\* jobs to run
LoopPass ==
    /\ \E t \in ThreadIds :
       /\ threads[t].pc = "idle"
       /\ running
       /\ RunnableJobs(jobs, now) # <<>>
       /\ threads' = [threads EXCEPT ![t] = Outside("pass", RunnableJobs(jobs, now))]
       /\ event' = NewEvent("pass", "-", t, 0)
    /\ UNCHANGED <<running, scheduler_thread, tasks, task_info, jobs, task_stats, caller,
                   all_records>>
    /\ UNCHANGED <<variant, now, pipeVars, detVars, fnVars, adaptVars>>

\* run_pending runs its next job: _run_task up to line 71
RunBegin ==
    /\ \E t \in ThreadIds :
       /\ threads[t].pc = "pass"
       /\ LET job == Head(threads[t].pending)
              name == task_info[job].name
          IN IF name \in DOMAIN tasks
             THEN /\ threads' = [threads EXCEPT
                                   ![t] = Inside(threads[t].pending, job, tasks[name], name, now)]
                  /\ event' = NewEvent("begin", name, t, tasks[name])
                  /\ jobs' = jobs
             ELSE \* lines 66-68, then the job is scheduled again
                  /\ threads' = [threads EXCEPT ![t] = ThreadAfterRun(threads[t], TRUE)]
                  /\ event' = NewEvent("not_found", name, t, 0)
                  /\ jobs' = IF job \in DOMAIN jobs
                             THEN [jobs EXCEPT
                                     ![job] = ScheduleNextRun(@, task_info[job].interval_minutes,
                                                              now)]
                             ELSE jobs
    /\ UNCHANGED <<running, scheduler_thread, tasks, task_info, task_stats, caller, all_records>>
    /\ UNCHANGED <<variant, now, pipeVars, detVars, fnVars, adaptVars>>

\* the run returns or raises: _run_task lines 77-123, then the job's next_run
RunEnd ==
    /\ \E t \in ThreadIds, success \in BOOLEAN :
       LET th == threads[t] IN
       /\ th.pc = "run"
       /\ FinishRun(th.name, th.info, th.start_time, success)
       /\ threads' = [threads EXCEPT ![t] = ThreadAfterRun(th, success)]
       /\ jobs' = IF th.job \in DOMAIN jobs
                  THEN [jobs EXCEPT
                          ![th.job] = ScheduleNextRun(@, task_info[th.job].interval_minutes,
                                                      now)]
                  ELSE jobs
       /\ event' = NewEvent(IF success THEN "ok" ELSE "failed", th.name, t, th.info)
    /\ UNCHANGED <<running, scheduler_thread, tasks, caller>>
    /\ UNCHANGED <<variant, now, pipeVars, detVars, fnVars, adaptVars>>

\* a minute passes while the loop has nothing due and no run in flight (its
\* poll period is one second)
AdvancePrompt ==
    /\ now < MaxStatsTime
    /\ \A t \in ThreadIds : threads[t].pc \in {"unborn", "idle", "dead"}
    /\ RunnableJobs(jobs, now) = <<>>
    /\ now' = now + 1
    /\ UNCHANGED <<variant, pipeVars, detVars, schedVars, fnVars, adaptVars>>

\* a minute passes
Minute ==
    /\ variant \in {"scheduler", "restart", "remove", "live"}
    /\ now < (IF variant \in {"scheduler", "live"} THEN MaxSchedTime ELSE MaxRestartTime)
    /\ now' = now + 1
    /\ UNCHANGED <<variant, pipeVars, detVars, schedVars, fnVars, adaptVars>>

\* the wall clock advances
Advance ==
    /\ now < MaxTime
    /\ now' = now + 1
    /\ UNCHANGED <<variant, pipeVars, detVars, schedVars, fnVars, adaptVars>>

InitDetector(ws, thr) ==
    /\ window_size = ws
    /\ z_threshold = thr
    /\ keyword_history = <<>>
    /\ keyword_ewma = <<>>
    /\ det_result = NoResult
    /\ n_obs = [k \in KeywordSet |-> 0]

InitState ==
    /\ now = 0
    /\ tweet_times = [k \in KeywordSet |-> <<>>]
    /\ last_alert_time = [k \in KeywordSet |-> None]
    /\ api_retry_time = None
    /\ current_keyword_index = 0
    /\ sim_index = 0
    /\ tick = NoTick
    /\ last_dispatch = [k \in KeywordSet |-> None]
    /\ recorded = [k \in KeywordSet |-> <<>>]

\* no function is being called on its own
InitNoCall == call = NoCall /\ ret = None

\* BackgroundScheduler.__init__
InitScheduler ==
    /\ running = FALSE
    /\ scheduler_thread = 0
    /\ tasks = <<>>
    /\ task_info = <<>>
    /\ jobs = <<>>
    /\ task_stats = <<>>
    /\ threads = [t \in ThreadIds |-> Outside("unborn", <<>>)]
    /\ caller = Outside("idle", <<>>)
    /\ event = NoEvent
    /\ all_records = <<>>

\* crowdsense_simulation.py line 45:
\* AnomalyDetector(window_size=15, ewma_alpha=0.3, z_threshold=2.0)
SIM_WINDOW_SIZE == 15

InitPipe ==
    /\ variant \in {"v2", "sim"} /\ observe = "off" /\ InitState /\ InitAdaptive(Rat(1, 10))
    /\ InitDetector(SIM_WINDOW_SIZE, Rat(2, 1)) /\ InitScheduler /\ InitNoCall

InitGate ==
    /\ variant \in {"v2", "sim"} /\ observe = "gate" /\ InitState /\ InitAdaptive(Rat(1, 10))
    /\ InitDetector(SIM_WINDOW_SIZE, Rat(2, 1)) /\ InitScheduler /\ InitNoCall

InitWindow ==
    /\ variant \in {"v2", "sim"} /\ observe = "window" /\ InitState /\ InitAdaptive(Rat(1, 10))
    /\ InitDetector(SIM_WINDOW_SIZE, Rat(2, 1)) /\ InitScheduler /\ InitNoCall

\* an AnomalyDetector(window_size, 0.3, z_threshold) as its callers build it
InitDet ==
    /\ variant = "detector" /\ observe = "off" /\ InitState /\ InitAdaptive(Rat(1, 10))
    /\ \E ws \in 2..MaxWindowSize, thr \in {Rat(2, 1), Rat(5, 2)} : InitDetector(ws, thr)
    /\ InitScheduler /\ InitNoCall

\* AnomalyDetector.__init__: window_size = 10
DEFAULT_WINDOW_SIZE == 10

\* a fresh AnomalyDetector as __init__'s defaults (window 10, threshold 2.0)
\* or create_anomaly_detector("zscore") (window 15, threshold 2.5) build it,
\* and the two mixed
InitDemo ==
    /\ variant = "demo" /\ observe = "off" /\ InitState /\ InitAdaptive(Rat(1, 10))
    /\ \E ws \in {DEFAULT_WINDOW_SIZE, SIM_WINDOW_SIZE}, thr \in {Rat(2, 1), Rat(5, 2)} :
          InitDetector(ws, thr)
    /\ InitScheduler /\ InitNoCall

\* a BackgroundScheduler as constructed
InitSched ==
    /\ variant = "scheduler" /\ observe = "off" /\ InitState /\ InitAdaptive(Rat(1, 10))
    /\ InitDetector(SIM_WINDOW_SIZE, Rat(2, 1)) /\ InitScheduler /\ InitNoCall

InitRestart ==
    /\ variant = "restart" /\ observe = "off" /\ InitState /\ InitAdaptive(Rat(1, 10))
    /\ InitDetector(SIM_WINDOW_SIZE, Rat(2, 1)) /\ InitScheduler /\ InitNoCall

InitRemove ==
    /\ variant = "remove" /\ observe = "off" /\ InitState /\ InitAdaptive(Rat(1, 10))
    /\ InitDetector(SIM_WINDOW_SIZE, Rat(2, 1)) /\ InitScheduler /\ InitNoCall

\* a BackgroundScheduler after add_task("a", f, ia), add_task("b", g, ib) and
\* start()
InitLive ==
    /\ variant = "live" /\ observe = "off" /\ InitState /\ InitAdaptive(Rat(1, 10))
    /\ InitDetector(SIM_WINDOW_SIZE, Rat(2, 1))
    /\ running = TRUE
    /\ scheduler_thread = 1
    /\ tasks = [n \in Names |-> IF n = "a" THEN 1 ELSE 2]
    /\ \E ia, ib \in Intervals :
       /\ task_info = <<[name |-> "a", interval_minutes |-> ia, last_run |-> None,
                         run_count |-> 0, error_count |-> 0],
                        [name |-> "b", interval_minutes |-> ib, last_run |-> None,
                         run_count |-> 0, error_count |-> 0]>>
       /\ jobs = <<ia, ib>>
    /\ task_stats = <<>>
    /\ threads = [t \in ThreadIds |-> Outside(IF t = 1 THEN "idle" ELSE "unborn", <<>>)]
    /\ caller = Outside("idle", <<>>)
    /\ event = NoEvent
    /\ all_records = <<>>
    /\ InitNoCall

\* a BackgroundScheduler after add_task("a", func, 1) and start()
InitStats ==
    /\ variant = "stats" /\ observe = "off" /\ InitState /\ InitAdaptive(Rat(1, 10))
    /\ InitDetector(SIM_WINDOW_SIZE, Rat(2, 1))
    /\ running = TRUE
    /\ scheduler_thread = 1
    /\ tasks = [n \in {"a"} |-> 1]
    /\ task_info = <<[name |-> "a", interval_minutes |-> 1, last_run |-> None,
                      run_count |-> 0, error_count |-> 0]>>
    /\ jobs = <<1>>
    /\ task_stats = <<>>
    /\ threads = [t \in ThreadIds |-> Outside(IF t = 1 THEN "idle" ELSE "unborn", <<>>)]
    /\ caller = Outside("idle", <<>>)
    /\ event = NoEvent
    /\ all_records = <<>>
    /\ InitNoCall

\* analyze_tweets_with_ai about to be called on some tweets and some response
InitStage1 ==
    /\ variant = "stage1" /\ observe = "off" /\ InitState /\ InitAdaptive(Rat(1, 10))
    /\ InitDetector(SIM_WINDOW_SIZE, Rat(2, 1)) /\ InitScheduler
    /\ call \in [op : {"analyze_tweets_with_ai"}, has_tweets : BOOLEAN,
                  keyword : KeywordSet, resp : AIResponses]
    /\ ret = None

\* a function of the programs about to be called on arguments of every shape
InitCalls ==
    /\ variant = "calls" /\ observe = "off" /\ InitState /\ InitAdaptive(Rat(1, 10))
    /\ \E ws \in 2..MaxWindowSize : InitDetector(ws, Rat(2, 1))
    /\ InitScheduler
    /\ call \in [op : {"load_historical_data"}, keyword : KeywordSet,
                  rows : Counts(MaxRows)]
                \cup [op : {"create_sms_alert"}, keyword : KeywordSet,
                      summary : {20, 1460, 1480},
                      news_urls : {<<>>} \cup UNION {[1..n -> {15, 30}] : n \in 1..3},
                      location : {None, Some(0), Some(5)}]
                \cup [op : {"fetch_news_with_queries"},
                      search_queries : AIQueryLists \cup {FallbackQueries(k) : k \in KeywordSet},
                      outcome : NewsOutcomes]
    /\ ret = None

InitAdapt ==
    /\ variant = "adaptive" /\ observe = "off" /\ InitState
    /\ \E rate \in AdaptationRates : InitAdaptive(rate)
    /\ InitDetector(SIM_WINDOW_SIZE, Rat(2, 1)) /\ InitScheduler /\ InitNoCall

NextPipe == FetchTweets \/ SimKeyword \/ Advance

NextDet == DetUpdate \/ DetLoad

NextSched ==
    AddTask \/ CallerRunEnd \/ Start \/ Stop \/ SignalHandler \/ LoopExit \/ LoopPass
    \/ RunBegin \/ RunEnd
    \/ Minute

NextRestart ==
    AddTask \/ CallerRunEnd \/ Start \/ StopCall \/ JoinReturn \/ LoopExit \/ LoopPass
    \/ RunBegin \/ RunEnd
    \/ Minute

NextCalls == CallLoadHistoricalData \/ CallCreateSmsAlert \/ CallFetchNewsWithQueries

NextAdapt == AdaptUpdate

NextRemove ==
    AddTask \/ CallerRunEnd \/ RemoveTask \/ Start \/ LoopPass \/ RunBegin \/ RunEnd
    \/ Minute

NextLive == LoopPass \/ RunBegin \/ RunEnd \/ Minute

NextDemo == DemoFeed

NextStage1 == CallAnalyzeTweetsWithAI

NextStats == LoopPass \/ RunBegin \/ RunEnd \/ AdvancePrompt

\* the pipeline programs
SpecPipe == InitPipe /\ [][NextPipe]_vars

\* the pipeline programs, with the delivered alerts recorded
SpecGate == InitGate /\ [][NextPipe]_vars

\* the pipeline programs, with every keyword's recorded timestamps kept
SpecWindow == InitWindow /\ [][NextPipe]_vars

\* a BackgroundScheduler, its loop threads and a thread calling its methods
SpecSched == InitSched /\ [][NextSched]_vars

\* a BackgroundScheduler started and stopped again and again, stop() taken in
\* its two steps; the timeout of the join is all that is sure to happen: a
\* run may never return
SpecRestart == InitRestart /\ [][NextRestart]_vars /\ WF_vars(JoinReturn)

\* a BackgroundScheduler whose tasks are added and removed while it runs
SpecRemove == InitRemove /\ [][NextRemove]_vars

\* a started BackgroundScheduler with two tasks that is not stopped: the loop
\* polls every second (LoopPass), run_pending goes through its jobs (RunBegin),
\* every run returns or raises (RunEnd), and time passes (Minute)
SpecLive ==
    /\ InitLive /\ [][NextLive]_vars
    /\ WF_vars(LoopPass) /\ WF_vars(RunBegin) /\ WF_vars(RunEnd) /\ WF_vars(Minute)

\* a started BackgroundScheduler running one task every minute
SpecStats == InitStats /\ [][NextStats]_vars

\* stage 1 of the verification pipeline, on every shape of AI response
SpecStage1 == InitStage1 /\ [][NextStage1]_vars

\* the functions called on their own
SpecCalls == InitCalls /\ [][NextCalls]_vars

\* an AdaptiveThresholdDetector fed observations
SpecAdapt == InitAdapt /\ [][NextAdapt]_vars

\* a fresh AnomalyDetector fed the demo's counts
SpecDemo == InitDemo /\ [][NextDemo]_vars

\* an AnomalyDetector fed observations and persisted histories
SpecDet == InitDet /\ [][NextDet]_vars

\* ===================================================================
\* Properties
\* ===================================================================

\* C1: for every task name, at no time are two runs of that task executing
\* at once, whichever threads run them.
C1_NoConcurrentRuns ==
    \A name \in Names :
        Cardinality({t \in ThreadIds : threads[t].pc = "run" /\ threads[t].name = name})
          + (IF caller.pc = "run" /\ caller.name = name THEN 1 ELSE 0) <= 1

\* C11: a run of a task is started by a loop thread only while the scheduler
\* is running: none is started once stop() has set running to false.
C11_NoRunAfterStop ==
    [][(\E t \in ThreadIds : threads[t].pc = "pass" /\ threads'[t].pc = "run")
       => running]_vars

\* C12: no run of a task is cut off by the exit of the process: every run that
\* was in flight when a signal arrived has returned.
C12_RunsComplete ==
    /\ \A t \in ThreadIds : threads[t].pc # "cut"
    /\ caller.pc # "cut"

\* C13: stage 1 returns the three templated fallback queries exactly when
\* there were tweets, the response had a part in braces that json.loads
\* refused, and the text names the keyword in whatever case; it returns the
\* parsed queries when there are some, and no queries in every other case.
C13_FallbackOnlyOnParseFailure ==
    (call.op = "analyze_tweets_with_ai" /\ ret # <<>>) =>
       LET r == call.resp
           search_queries == ret[1][1]
           parsed == call.has_tweets /\ r.present /\ r.braces /\ r.parses
                     /\ r.queries # <<>>
           failed == call.has_tweets /\ r.present /\ r.braces /\ ~r.parses
                     /\ r.mention \in {"lower", "upper"}
       IN /\ parsed => search_queries = r.queries
          /\ failed => search_queries = << <<call.keyword, "news today">>,
                                           <<call.keyword, "disaster alert">>,
                                           <<"breaking", call.keyword, "emergency">> >>
          /\ (~parsed /\ ~failed) => search_queries = <<>>

\* C13 witness: the fallback queries were returned for a text that could not
\* be parsed and names the keyword in capitals
C13_Witness ==
    /\ call.op = "analyze_tweets_with_ai"
    /\ ret # <<>>
    /\ ~call.resp.parses
    /\ call.resp.mention = "upper"
    /\ Len(ret[1][1]) = 3

\* C14: update_history returns z = 0 for an observation whenever the
\* keyword's history without the current count has fewer than 2 points or has
\* all its points equal (zero standard deviation).
C14_ZeroZOnShortOrFlatHistory ==
    [][(n_obs' # n_obs) =>
       LET r == det_result'
           h == keyword_history'[r.keyword]
           prior == SubSeq(h, 1, Len(h) - 1)
       IN (Len(prior) < 2 \/ \A i, j \in 1..Len(prior) : prior[i] = prior[j])
          => r.z_score.num = 0]_vars

\* C14 witness: a count that differs from a flat history of two points got z = 0
C14_Witness ==
    /\ variant = "detector"
    /\ det_result.keyword \in DOMAIN keyword_history
    /\ LET h == keyword_history[det_result.keyword]
       IN /\ Len(h) = 3
          /\ h[1] = h[2]
          /\ h[3] # h[1]
          /\ h[3] = det_result.count
    /\ det_result.z_score.num = 0

\* C15: a fresh detector with z_threshold 2.5 fed 2, 3, 1, 4, 2, 3 and then 15
\* for one keyword answers is_anomaly = true to the 15.
C15_ReferenceScenario ==
    (variant = "demo" /\ z_threshold = [num |-> 5, den |-> 2] /\ det_result.count = 15) =>
       /\ keyword_history[det_result.keyword] = <<2, 3, 1, 4, 2, 3, 15>>
       /\ det_result.is_anomaly

\* C15 witness: the 15 was observed after the six counts, at threshold 2.5
C15_Witness ==
    /\ variant = "demo"
    /\ z_threshold = [num |-> 5, den |-> 2]
    /\ det_result.count = 15
    /\ det_result.is_anomaly
    /\ det_result.z_score = [num |-> 75, rad |-> 33]

C17_ErrorStatusNoBackoff ==
    [][(now' = now /\ tick'.kind \in {"auth_failed", "api_error"})
       => /\ api_retry_time' = api_retry_time
          /\ ~InApiCooldown(api_retry_time', now)
          /\ tick'.n = 0 /\ tick'.calls = NoCalls
          /\ tweet_times' = tweet_times
          /\ last_alert_time' = last_alert_time]_vars

\* a 401 was answered after an earlier throttling had set api_retry_time, and
\* the tick that follows is not short-circuited: it can be answered in turn
C17_Witness ==
    /\ tick.kind = "auth_failed"
    /\ api_retry_time # None
    /\ ENABLED (FetchTweets /\ tick'.kind = "api_error")

\* C18: a tick in which the notifier delivered the alert for a keyword (kinds
\* "alert", and "alert_unsaved" where the delivery was followed by a failed
\* save) ends with the keyword's window empty and its last_alert_time equal
\* to the tick's time.
C18_DispatchResetsAndCools ==
    [][(now' = now /\ tick'.kind \in {"alert", "alert_unsaved"})
       => /\ tweet_times'[tick'.kw] = <<>>
          /\ last_alert_time'[tick'.kw] = Some(now)]_vars

\* C19: a tick that polls a keyword whose gate is in COOLDOWN when the tick
\* starts (last_alert_time is set and no more than the cooldown old) makes no
\* call to the AI service, the news search or the notifier, leaves
\* last_alert_time as it was and does not clear the window; if it got as far as
\* a positive verdict it is turned away by the gate, the window holding what
\* ingestion and eviction left.
C19_CooldownNoVerification ==
    [][(/\ now' = now
        /\ tick'.kw \in KeywordSet
        /\ tick' # tick \/ current_keyword_index' # current_keyword_index
                        \/ sim_index' # sim_index
        /\ last_alert_time[tick'.kw] # None
        /\ now - last_alert_time[tick'.kw][1] <=
              (IF variant = "v2" THEN ALERT_COOLDOWN ELSE SIM_ALERT_COOLDOWN))
       => /\ tick'.calls = NoCalls
          /\ last_alert_time' = last_alert_time
          /\ ~tick'.cleared
          /\ tick'.kind \in {"throttled", "auth_failed", "api_error", "network_error",
                             "below_threshold", "no_anomaly", "metrics_failed",
                             "gate_closed"}
          /\ tick'.kind = "gate_closed" =>
                /\ tweet_times'[tick'.kw] =
                      (IF variant = "v2"
                       THEN Evict(tweet_times[tick'.kw] \o Repeat(now, tick'.n), now)
                       ELSE SimEvict(tweet_times[tick'.kw] \o Repeat(now, tick'.n), now))
                /\ Len(tweet_times'[tick'.kw]) = tick'.count]_vars

\* an anomalous tick was turned away by the gate, its events kept in the window
C19_Witness ==
    /\ tick.kind = "gate_closed"
    /\ tick.n > 0
    /\ tick.count >= THRESHOLD
    /\ last_alert_time[tick.kw] # None
    /\ now - last_alert_time[tick.kw][1] <= ALERT_COOLDOWN
    /\ Len(tweet_times[tick.kw]) = tick.count

\* C20: when a run started by the scheduling loop ends, its job is next due one
\* interval after the end of the run, however many intervals went by while it
\* ran: the job is not due at that moment and is not among the jobs the loop
\* thread has still to run in this pass, so no run is started to make up for
\* the ticks that fell due during the run.
C20_NoCatchUpRuns ==
    [][\A t \in ThreadIds :
         (threads[t].pc = "run" /\ threads'[t].pc \in {"idle", "pass"})
         => LET job == threads[t].job
            IN /\ jobs'[job] = now + task_info[job].interval_minutes
               /\ \A i \in 1..Len(RunnableJobs(jobs', now)) :
                     RunnableJobs(jobs', now)[i] # job
               /\ \A i \in 1..Len(threads'[t].pending) :
                     threads'[t].pending[i] # job]_vars

\* a run started by the loop has ended after more than its interval, and its
\* job is due one interval from now
C20_Witness ==
    /\ event.kind \in {"ok", "failed"}
    /\ event.thread # 0
    /\ \E job \in DOMAIN jobs :
         /\ task_info[job].name = event.name
         /\ jobs[job] = now + task_info[job].interval_minutes
         /\ LET recs == task_stats[event.name]
            IN now - recs[Len(recs)].start_time > task_info[job].interval_minutes

\* C21: a call of stop() that waits for the loop thread returns, whether or
\* not the run in flight ever does.
C21_StopReturns == (caller.pc = "join") ~> (caller.pc = "idle")

\* stop() has returned on the timeout of its join, the loop thread still
\* inside a run
C21_Witness ==
    /\ event.kind = "stopped"
    /\ caller.pc = "idle"
    /\ ~running
    /\ threads[scheduler_thread].pc = "run"

\* C30: at any time at most one loop thread is inside schedule.run_pending,
\* running a job or about to run the next one of its pass.
C30_OneLoopThread ==
    Cardinality({t \in ThreadIds : threads[t].pc \in {"pass", "run"}}) <= 1

\* C22: when analyze_tweets_with_ai is given tweets and an AI response that is
\* not parseable JSON (it holds no braces, or what is between them does not
\* parse) and whose text contains the keyword, it returns the three templated
\* queries in order and no location.
C22_FallbackOnUnparseable ==
    (call.op = "analyze_tweets_with_ai" /\ ret # <<>>
       /\ call.has_tweets /\ call.resp.present
       /\ (~call.resp.braces \/ ~call.resp.parses)
       /\ call.resp.mention = "lower")
    => ret[1] = << << <<call.keyword, "news today">>,
                      <<call.keyword, "disaster alert">>,
                      <<"breaking", call.keyword, "emergency">> >>, None >>

\* C23: after load_historical_data has primed a keyword from persisted rows
\* (handed over newest first, as the query orders them), the keyword's history
\* holds the counts of the window_size most recent rows, in whatever order, and
\* its EWMA is the mean of the counts of the 5 most recent rows.
C23_SeedFromMostRecent ==
    (call.op = "load_historical_data" /\ ret # <<>> /\ call.rows # <<>>) =>
       LET rows == call.rows
           recent == SubSeq(rows, 1, Min(Len(rows), window_size))
           recent5 == SubSeq(rows, 1, Min(Len(rows), 5))
           h == keyword_history[call.keyword]
       IN /\ Len(h) = Len(recent)
          /\ \A c \in 0..MaxCount :
                Cardinality({i \in 1..Len(h) : h[i] = c})
                  = Cardinality({i \in 1..Len(recent) : recent[i] = c})
          /\ keyword_ewma[call.keyword] = Rat(SumSeq(recent5), Len(recent5))

C25_PartialNewsKept ==
    (call.op = "fetch_news_with_queries" /\ ret # <<>>) =>
       LET q == call.search_queries
           r == ret[1]
           n == Len(r.searched)
           Found(i) == IF i <= n /\ call.outcome[i] = "hit"
                       THEN << <<"article", i>> >> ELSE <<>>
       IN /\ n <= 3
          /\ n = Len(q) \/ (n = 3 /\ Len(q) > 3)
          /\ \A i \in 1..n : r.searched[i] = q[i]
          /\ r.all_articles = Found(1) \o Found(2) \o Found(3)

\* the first of four queries failed, the second and the third were answered
C25_Witness ==
    /\ call.op = "fetch_news_with_queries" /\ ret # <<>>
    /\ Len(call.search_queries) = 4
    /\ call.outcome[1] = "error"
    /\ ret[1].all_articles = << <<"article", 2>>, <<"article", 3>> >>
    /\ Len(ret[1].searched) = 3

C27_HistoryBounded ==
    [][/\ \A kw \in DOMAIN keyword_history' :
            /\ Len(keyword_history'[kw]) <= window_size
            /\ kw \in DOMAIN keyword_ewma'
       /\ (n_obs' # n_obs) =>
            LET kw == det_result'.keyword
                old == IF kw \in DOMAIN keyword_history THEN keyword_history[kw] ELSE <<>>
            IN keyword_history'[kw] =
                 Append(IF Len(old) = window_size THEN Tail(old) ELSE old,
                        det_result'.count)]_vars

\* a keyword observed more often than its history is long: counts were evicted
C27_Witness ==
    \E kw \in DOMAIN keyword_history :
       /\ Len(keyword_history[kw]) = window_size
       /\ n_obs[kw] > window_size
       /\ det_result.keyword = kw
       /\ keyword_history[kw][window_size] = det_result.count

\* C28: update_threshold(keyword, count) leaves as the keyword's average
\* r x count + (1 - r) x its average before the call, the average of a new
\* keyword being count; it leaves as its threshold the larger of the base
\* threshold and twice that new average, returns this threshold, and returns
\* is_anomaly true exactly when count >= this threshold.
C28_AdaptiveThreshold ==
    [][(adapt_result'.calls # adapt_result.calls) =>
       LET kw == adapt_result'.keyword
           count == adapt_result'.count
           r == adaptation_rate
           prev == IF kw \in DOMAIN keyword_averages THEN keyword_averages[kw]
                   ELSE [num |-> count, den |-> 1]
           avg == keyword_averages'[kw]
           thr == keyword_thresholds'[kw]
       IN /\ avg = Rat(r.num * count * prev.den + (r.den - r.num) * prev.num,
                       r.den * prev.den)
          /\ (kw \notin DOMAIN keyword_averages) => avg = [num |-> count, den |-> 1]
          /\ thr.num >= BASE_THRESHOLD * thr.den
          /\ thr.num * avg.den >= 2 * avg.num * thr.den
          /\ \/ thr.num = BASE_THRESHOLD * thr.den
             \/ thr.num * avg.den = 2 * avg.num * thr.den
          /\ adapt_result'.current_threshold = thr
          /\ adapt_result'.is_anomaly <=> (count * thr.den >= thr.num)]_vars

\* an anomaly reported on a threshold of twice the running average, above the
\* base threshold
C28_Witness ==
    /\ adapt_result.calls >= 2
    /\ adapt_result.is_anomaly
    /\ adapt_result.current_threshold # [num |-> BASE_THRESHOLD, den |-> 1]
    /\ keyword_thresholds[adapt_result.keyword] = adapt_result.current_threshold
    /\ keyword_averages[adapt_result.keyword].den > 1

\* C29: a tick whose request raises ends normally with every keyword's
\* window, every last_alert_time and api_retry_time as they were before it,
\* nothing ingested and no call made to the AI service, the news search or the
\* notifier.
C29_NetworkErrorNoMutation ==
    [][(now' = now /\ tick'.kind = "network_error")
       => /\ tweet_times' = tweet_times
          /\ last_alert_time' = last_alert_time
          /\ api_retry_time' = api_retry_time
          /\ tick'.n = 0 /\ tick'.calls = NoCalls /\ ~tick'.cleared]_vars

\* the request raised for a keyword with a window, a last_alert_time and an
\* api_retry_time to keep
C29_Witness ==
    /\ tick.kind = "network_error"
    /\ tweet_times[tick.kw] # <<>>
    /\ last_alert_time[tick.kw] # None
    /\ api_retry_time # None

\* C31: the scheduler holds execution statistics for registered names only (a
\* name leaves the task table through remove_task alone, so that a name with
\* statistics and no task has been removed), and a run is begun for
\* registered names only.
C31_RemovedTaskForgotten ==
    [][/\ DOMAIN task_stats' \subseteq DOMAIN tasks'
       /\ (event'.kind = "begin" /\ event' # event) => event'.name \in DOMAIN tasks]_vars

\* C32: no two scheduled jobs run the same task name.
C32_OneJobPerName ==
    \A i, j \in DOMAIN jobs : task_info[i].name = task_info[j].name => i = j

\* C33: for every registered task, run_count is the number of its completed
\* runs that returned normally, error_count the number that raised, their sum
\* the number of completed runs, and last_run the start time of the most
\* recent successful run (None when there is none).
C33_RunAccounting ==
    \A name \in DOMAIN tasks :
        LET info == task_info[tasks[name]]
            recs == IF name \in DOMAIN all_records THEN all_records[name] ELSE <<>>
            ok   == {i \in 1..Len(recs) : recs[i].success}
            bad  == {i \in 1..Len(recs) : ~recs[i].success}
        IN /\ info.run_count = Cardinality(ok)
           /\ info.error_count = Cardinality(bad)
           /\ info.run_count + info.error_count = Len(recs)
           /\ info.last_run = IF ok = {} THEN None
                              ELSE Some(recs[CHOOSE i \in ok : \A k \in ok : k <= i].start_time)

\* a failed run completed after a successful one and left last_run at the
\* start time of the successful run
C33_Witness ==
    /\ variant = "stats"
    /\ "a" \in DOMAIN all_records
    /\ Len(all_records["a"]) >= 3
    /\ ~all_records["a"][Len(all_records["a"])].success
    /\ all_records["a"][Len(all_records["a"]) - 1].success
    /\ task_info[1].last_run = Some(all_records["a"][Len(all_records["a"]) - 1].start_time)
    /\ task_info[1].error_count = 1

\* C34: when the counts a keyword's history held before update_history was
\* called are all equal (none and one count included), the call reports not
\* anomalous, whatever the count it was given.
C34_FlatHistoryNotAnomalous ==
    [][n_obs' # n_obs =>
         LET keyword == det_result'.keyword
             before == IF keyword \in DOMAIN keyword_history
                       THEN keyword_history[keyword] ELSE <<>>
         IN (\A i, j \in 1..Len(before) : before[i] = before[j])
                => ~det_result'.is_anomaly]_vars

\* a count that stands out of two equal earlier counts and exceeds 1.5 times
\* the EWMA was reported not anomalous
C34_Witness ==
    /\ variant = "detector"
    /\ \E keyword \in DOMAIN keyword_history :
       LET h == keyword_history[keyword]
       IN /\ n_obs[keyword] = 3
          /\ Len(h) = 3 /\ h[1] = h[2] /\ h[3] > h[1]
          /\ det_result.keyword = keyword /\ det_result.count = h[3]
          /\ EwmaExceeded(det_result.count, det_result.ewma_value)
          /\ ~det_result.is_anomaly

\* C35: a tick of ai_crowdsense_v2.py calls the notifier only if, in that
\* tick, the keyword's gate was open when the tick began (no alert time, or
\* one older than the cooldown), stage 1 gave at least one query (the news
\* search was called), at least one article was gathered, and the validation
\* response was present, parsed and said is_validated true.
C35_NotifierOnlyWhenValidated ==
    [][(/\ now' = now /\ variant = "v2"
        /\ current_keyword_index' # current_keyword_index
        /\ tick'.calls.sms > 0)
       => /\ \/ last_alert_time[tick'.kw] = None
             \/ now - last_alert_time[tick'.kw][1] > ALERT_COOLDOWN
          /\ tick'.calls.ai >= 1 /\ tick'.calls.news >= 1
          /\ tick'.stage3.reached /\ tick'.stage3.articles >= 1
          /\ tick'.stage3.resp.present /\ tick'.stage3.resp.braces
          /\ tick'.stage3.resp.parses /\ tick'.stage3.resp.is_validated]_vars

\* the notifier was called, and failed, in a tick that passed the gate a
\* second time for its keyword, with articles and a validated response
C35_Witness ==
    /\ variant = "v2"
    /\ tick.kind = "sms_failed" /\ tick.calls.sms = 1 /\ tick.calls.ai = 2
    /\ tick.stage3.articles >= 1 /\ tick.stage3.resp.is_validated
    /\ last_alert_time[tick.kw] = Some(now) /\ now > ALERT_COOLDOWN

\* C36: a tick of ai_crowdsense_v2.py inside the ingestion cooldown leaves the
\* rotation where it was; every other tick polls the keyword the rotation
\* points at and advances the rotation by one, modulo the number of keywords,
\* whatever the status of its request; two ticks in a row that both polled
\* took different keywords.
C36_RoundRobin ==
    [][(/\ now' = now /\ variant = "v2"
        /\ tick' # tick \/ current_keyword_index' # current_keyword_index)
       => IF tick'.kind = "short_circuit"
          THEN current_keyword_index' = current_keyword_index
          ELSE /\ tick'.kw = DISASTER_KEYWORDS[current_keyword_index + 1]
               /\ current_keyword_index' =
                     (current_keyword_index + 1) % Len(DISASTER_KEYWORDS)
               /\ tick.kw \in KeywordSet => tick'.kw # tick.kw]_vars

\* a tick whose request raised polled the last keyword and the rotation
\* wrapped around to the first
C36_Witness ==
    /\ variant = "v2"
    /\ tick.kind = "network_error"
    /\ tick.kw = DISASTER_KEYWORDS[Len(DISASTER_KEYWORDS)]
    /\ current_keyword_index = 0
    /\ api_retry_time # None

\* C37: a tick of the simulation in which save_tweet_metrics raised takes no
\* alert path (no call to the notifier, the gate and the window's clearing
\* untouched: analyze_tweet_anomaly reported not anomalous), while the
\* detector's history ends with that tick's count and its EWMA is the one
\* update_history computed for it.
C37_SaveFailureNoAlert ==
    [][(now' = now /\ variant = "sim" /\ sim_index' # sim_index /\ ~tick'.saved)
       => /\ tick'.kind = "metrics_failed"
          /\ tick'.calls = NoCalls /\ ~tick'.cleared
          /\ last_alert_time' = last_alert_time
          /\ tick'.kw \in DOMAIN keyword_history'
          /\ keyword_history'[tick'.kw][Len(keyword_history'[tick'.kw])] = tick'.count
          /\ det_result'.keyword = tick'.kw /\ det_result'.count = tick'.count
          /\ keyword_ewma'[tick'.kw] = det_result'.ewma_value]_vars

\* the detector found the tick anomalous and the gate was open, but the metric
\* was not saved and the tick ended without an alert
C37_Witness ==
    /\ variant = "sim"
    /\ tick.kind = "metrics_failed" /\ ~tick.saved
    /\ det_result.keyword = tick.kw /\ det_result.is_anomaly
    /\ ShouldSendAlert(last_alert_time[tick.kw], now)
    /\ tick.calls = NoCalls

\* C38: in a running scheduler whose runs all terminate, a task that has
\* completed a run and whose job is due again within the horizon of the clock
\* is eventually started again, whatever the other task does and whether or
\* not its runs failed.
C38_NoStarvation ==
    \A j \in 1..2 :
        (/\ running
         /\ task_info[j].run_count + task_info[j].error_count >= 1
         /\ ~(threads[scheduler_thread].pc = "run" /\ threads[scheduler_thread].job = j)
         /\ jobs[j] <= MaxSchedTime)
        ~> (threads[scheduler_thread].pc = "run" /\ threads[scheduler_thread].job = j)

\* task "a" is started again after a run of its own that failed and a run of
\* task "b"
C38_Witness ==
    /\ variant = "live"
    /\ threads[1].pc = "run" /\ threads[1].job = 1
    /\ task_info[1].error_count >= 1
    /\ task_info[2].run_count + task_info[2].error_count >= 1

\* C2: per keyword, after an alert was delivered at time t, every anomalous
\* tick with now - t <= ALERT_COOLDOWN is turned away by the gate and every
\* anomalous tick with now - t > ALERT_COOLDOWN is admitted by it.
C2_CooldownGate ==
    [][(now' = now /\ tick'.kind \in {"gate_closed", "no_tweets", "no_queries", "rejected",
                                      "alert", "alert_unsaved", "sms_failed"}
        /\ last_dispatch[tick'.kw] # None) =>
       LET t == last_dispatch[tick'.kw][1]
           cooldown == IF variant = "v2" THEN ALERT_COOLDOWN ELSE SIM_ALERT_COOLDOWN
       IN (tick'.kind = "gate_closed") <=> (now - t <= cooldown)]_vars

\* C3: a tick whose stage 1 yields no search query calls no notifier, leaves
\* the keyword's window as ingestion and eviction left it, and leaves the
\* keyword's last_alert_time as it was.
C3_NoQueriesNoEffect ==
    [][(now' = now /\ tick'.kind = "no_queries") =>
       /\ ~tick'.cleared
       /\ tweet_times'[tick'.kw]
            = Evict(tweet_times[tick'.kw] \o Repeat(now, tick'.n), now)
       /\ last_alert_time'[tick'.kw] = last_alert_time[tick'.kw]]_vars

\* C4: a tick whose validated alert the notifier fails to deliver neither
\* clears the keyword's window nor sets the keyword's last_alert_time.
C4_FailedDeliveryNoReset ==
    [][(now' = now /\ tick'.kind = "sms_failed") =>
       /\ ~tick'.cleared
       /\ tweet_times'[tick'.kw] # <<>>
       /\ last_alert_time'[tick'.kw] = last_alert_time[tick'.kw]]_vars

\* C5: after a tick whose validation rejected the alert, the keyword's gate is
\* open, so that the keyword's next anomalous tick runs stages 1-3 again.
C5_RejectionLeavesGateArmed ==
    [][(now' = now /\ tick'.kind = "rejected") =>
       (last_alert_time'[tick'.kw] = None
        \/ now - last_alert_time'[tick'.kw][1] > ALERT_COOLDOWN)]_vars

\* C6: the verdict update_history returns for an observation is true exactly
\* when |z| > z_threshold, count > 1.5 x ewma and ewma > 0 all hold, for the z
\* and the ewma it returns, the ewma being the stored one after its update.
C6_VerdictIsConjunction ==
    [][(n_obs' # n_obs) =>
       LET r == det_result'
           z == r.z_score
           e == r.ewma_value
       IN /\ e = keyword_ewma'[r.keyword]
          /\ r.is_anomaly <=>
                /\ z.num * z.num * z_threshold.den * z_threshold.den
                      > z_threshold.num * z_threshold.num * z.rad
                /\ 2 * r.count * e.den > 3 * e.num
                /\ e.num > 0]_vars

\* C6 witness: an observation was judged anomalous
C6_Witness ==
    /\ variant = "detector"
    /\ det_result.is_anomaly
    /\ det_result.count > 0

\* C7: the count a tick reads equals the number of timestamps recorded for the
\* keyword since its window was last cleared, this tick's included, that lie
\* in [now - WINDOW, now].
C7_CountIsWindowPopulation ==
    [][(now' = now /\ tick'.kind \notin {"none", "short_circuit", "throttled", "auth_failed",
                                         "api_error", "network_error"}) =>
       LET stamps == recorded[tick'.kw] \o Repeat(now, tick'.n)
           width == IF variant = "v2" THEN WINDOW ELSE SIM_WINDOW
       IN tick'.count = Cardinality({i \in 1..Len(stamps) :
                                       now - width <= stamps[i] /\ stamps[i] <= now})]_vars

\* C7 witness: a count was read after older recorded timestamps had been evicted
C7_Witness ==
    /\ observe = "window"
    /\ tick.kind = "below_threshold"
    /\ tick.count = 1
    /\ Len(recorded[tick.kw]) > 1

\* C8: a throttled response at time t sets retry_at to t + API_RETRY_DELAY;
\* a fetch strictly before retry_at returns without a network call and without
\* touching any keyword's state; a fetch at or after retry_at calls the network.
C8_ThrottleBackoff ==
    [][(variant = "v2" /\ now' = now) =>
       /\ (tick'.kind = "throttled") => (api_retry_time' = <<now + API_RETRY_DELAY>>)
       /\ (api_retry_time # <<>> /\ now < api_retry_time[1]) =>
             /\ tick'.kind = "short_circuit"
             /\ UNCHANGED <<tweet_times, last_alert_time, api_retry_time,
                            current_keyword_index>>
       /\ (api_retry_time # <<>> /\ now >= api_retry_time[1]) =>
             tick'.kind # "short_circuit"]_vars

\* C8 witness: a fetch short-circuited during the back-off a 429 started
C8_Witness ==
    /\ api_retry_time # <<>>
    /\ now < api_retry_time[1]
    /\ tick.kind = "short_circuit"

\* C9: when a run of a task ends in an exception, the error_count of the
\* task_info it ran on grows by one and its run_count does not, a failed record
\* is appended to the task's records, the scheduler keeps running, no loop
\* thread ends, the jobs left in the thread's pass stay pending, the failed job
\* is scheduled again and every other job keeps its next_run.
C9_FailureContained ==
    [][(/\ event'.kind = "failed"
        /\ IF event'.thread = 0
           THEN caller.pc = "run" /\ caller'.pc # "run"
           ELSE threads[event'.thread].pc = "run" /\ threads'[event'.thread].pc # "run") =>
       LET t == event'.thread
           id == event'.info
           name == event'.name
           before == IF name \in DOMAIN task_stats THEN task_stats[name] ELSE <<>>
       IN /\ task_info'[id].error_count = task_info[id].error_count + 1
          /\ task_info'[id].run_count = task_info[id].run_count
          /\ Len(task_stats'[name]) = Len(before) + 1
          /\ SubSeq(task_stats'[name], 1, Len(before)) = before
          /\ ~task_stats'[name][Len(before) + 1].success
          /\ running' = running /\ tasks' = tasks
          /\ \A u \in ThreadIds : threads[u].pc # "dead" => threads'[u].pc # "dead"
          /\ t # 0 =>
                /\ threads'[t].pending = Tail(threads[t].pending)
                /\ threads'[t].pc = IF Tail(threads[t].pending) = <<>> THEN "idle" ELSE "pass"
                /\ \A j \in DOMAIN jobs :
                      jobs'[j] = IF j = threads[t].job
                                 THEN now + task_info[j].interval_minutes ELSE jobs[j]
          /\ t = 0 => jobs' = jobs /\ threads' = threads]_vars

\* C9 witness: a run failed on the loop thread, which goes on with another
\* task's job in the same pass
C9_Witness ==
    /\ event.kind = "failed"
    /\ event.thread # 0
    /\ threads[event.thread].pc = "pass"
    /\ task_info[Head(threads[event.thread].pending)].name # event.name

\* C10: a task never has more than 100 execution records, and the records it
\* has are the latest ones appended for it.
C10_RecordsBounded ==
    \A name \in DOMAIN task_stats :
        /\ Len(task_stats[name]) <= KEEP
        /\ task_stats[name] = LastN(all_records[name], Len(task_stats[name]))

====
